---- MODULE Spec2Model ----
(***************************************************************************)
(* Vision-based desktop automation (malak-hossam/automation-desktop).      *)
(*                                                                         *)
(* The model covers the run loop of main.py, the Notepad lifecycle of      *)
(* src/notepad.py and the retrying grounding engine of src/grounding.py.   *)
(* The window system, the filesystem and the inference backend are the     *)
(* environment: every observation the code makes of them (a window         *)
(* appeared, a title is blank, a file is non-empty, the backend answered)  *)
(* is a nondeterministic choice.                                           *)
(*                                                                         *)
(*   Spec   the whole run: main() over POSTS_COUNT posts.                  *)
(*   SpecG  one call of GroundingEngine.ground_with_retry with arbitrary   *)
(*          arguments (max_retries, screenshot) and configuration.         *)
(***************************************************************************)
EXTENDS Integers, Sequences, FiniteSets, TLC

\* ------------------------------------------------------------------ bounds
\* config.POSTS_COUNT: number of posts of the run (environment-sourced).
POSTS_COUNT == 2
\* config.GROUNDING_MAX_RETRIES (environment-sourced, no default in the code).
GROUNDING_MAX_RETRIES == 2
\* Largest explicit max_retries argument tried in SpecG.
MaxRetriesArg == 3
\* Largest number of Notepad windows open when close_all_notepad_windows starts.
MaxWins == 21
\* Largest number of dialogs other than the overwrite confirmation that are
\* open when save_file_as has pressed Enter in the Save As dialog.
MaxDialogs == 2
\* Largest coordinate value rendered into the texts handed to _parse_coordinates
\* (UGround answers in [0, 1000)).
MaxCoord == 999
\* Largest normalised coordinate handed to _norm_to_pixels (values of 1000 and
\* more are not rejected anywhere).
MaxNorm == 1100

\* ------------------------------------------------------- program constants
\* notepad.py:63  for launch_attempt in range(1, 4)
LaunchAttempts == 3
\* notepad.py:95  for attempt in range(1, 6)
VerifyAttempts == 5
\* automation.py:166  for _ in range(20)
CloseAllLimit == 20
\* automation.py:261  for attempt in range(3)
SaveConfirmLimit == 3
\* automation.py:282  dismiss_notepad_dialogs(max_dismissals=3, pause=0.3)
SaveDismissals == 3
\* grounding.py:78  nx / 1000 is a float: an IEEE 754 double, 53 significant bits
MantissaBits == 53
\* grounding.py:78  the divisor of the normalised space
NormScale == 1000
\* grounding.py:78  width of the pieces the double arithmetic is computed in
LimbBits == 18

VARIABLES
    \* main()
    idx,                  \* 1-based index of the post being processed
    pc,                   \* position of the single thread of control
    results,              \* the run-level list of result records
    success,              \* main's local `success`
    exc,                  \* exception in flight / last caught ("none" if none)
    \* notepad.py
    _grounding_disabled,  \* module-level degradation flag
    launch_attempt,       \* loop variable of the ground-click loop
    vAttempt,             \* loop variable `attempt` of the blank-document loop
    hwnd,                 \* window handle held by launch_notepad / main (0 = None)
    saved,                \* result of save_post: "unset" | "true" | "false"
    \* environment
    winOpen,              \* a visible Notepad window exists
    file,                 \* destination file of the current post
    disk,                 \* names of the files in TARGET_DIR that hold content
    \* ground_with_retry
    annotate,             \* config.ANNOTATE_SCREENSHOTS
    retries,              \* local `retries`
    supplied,             \* argument `screenshot`
    attempt,              \* loop variable `attempt`
    last_exc,             \* local `last_exc`
    point,                \* the pixel point returned (NoPoint if none)
    \* history of the current ground_with_retry call
    shots,                \* screenshots handed to the backend, in call order
    captures,             \* number of capture_desktop() calls
    gCalls,               \* number of backend invocations
    backendFails,         \* number of backend invocations that raised
    annotations,          \* number of debug images persisted
    \* history of the current item
    callsAfterFlag,       \* backend invocations made while the flag was set
    clicks,               \* double-clicks issued by this launch
    appearedAt,           \* launch attempt after which the window appeared (0 = none)
    launchVia,            \* "none" | "grounding" | "subprocess" | "fallback"
    directLaunched,       \* some notepad.exe process was started for this item
    flagAtStart,          \* value of the flag when this item's launch began
    exhausted,            \* ground_with_retry raised during this item's launch
    cleaned,              \* the finally-block close ran for the last finished item
    directTimedOut,       \* a wait after starting notepad.exe ran out for this item
    verifyIters,          \* iterations of the blank-document loop run for this item
    forced,               \* the forced clean launch ran for this item
    titleBlank,           \* the window launch_notepad last looked at or opened is blank
    vTrace,               \* what the latest pass of the blank-document loop did, in order
    stepsBegun,           \* the steps of main's try body begun for this item, in order
    \* _LocalBackend
    _model,               \* "None" until _load() has succeeded, then "loaded"
    loadFailed,           \* _load() raised during this item
    loads,                \* times _load() has loaded the weights since process start
    launchCalls,          \* backend invocations made so far by this launch
    waits,                \* wait_for_window calls made so far by this launch
    clickOnReturned,      \* the latest double_click of this launch was given the point just returned
    \* calls checked on their own (SpecClose, ...)
    cpc,                  \* position inside the call under check ("idle" if none)
    wins,                 \* number of visible Notepad windows
    caIter,               \* close_all_notepad_windows: iterations of `for _ in range(20)`
    caAttempts,           \* close_all_notepad_windows: close attempts made (`closed`)
    caFoundNone,          \* close_all_notepad_windows: a check found no window
    caIneffective,        \* close_all_notepad_windows: an attempt left its window open
    owDialog,             \* a "Confirm Save As" dialog is visible
    otherDlgs,            \* number of other visible dialogs of class #32770
    svAttempt,            \* save_file_as: iterations of `for attempt in range(3)` run
    yesClicks,            \* save_file_as: times Yes was selected
    owFoundNone,          \* save_file_as: a check found no overwrite dialog
    enterOnOverwrite,     \* Enter was pressed with the overwrite dialog in front
    dMax,                 \* dismiss_notepad_dialogs: argument max_dismissals
    dIter,                \* dismiss_notepad_dialogs: iterations of the outer loop run
    dismissed,            \* dismiss_notepad_dialogs: local `dismissed`
    errorDialogSeen,      \* dismiss_notepad_dialogs found a dialog other than the overwrite one
    pin,                  \* _parse_coordinates: how the argument text was built
    presult,              \* _parse_coordinates: what the call did
    pxin,                 \* _norm_to_pixels: <<nx, ny, SCREEN_WIDTH, SCREEN_HEIGHT>>
    pxout                 \* _norm_to_pixels: the pixel point returned

runVars    == <<idx, results, success>>
padVars    == <<_grounding_disabled, launch_attempt, vAttempt, hwnd, saved>>
envVars    == <<winOpen, file>>
groundVars == <<retries, supplied, attempt, last_exc, point>>
groundHist == <<shots, captures, gCalls, backendFails, annotations>>
itemHist   == <<clicks, appearedAt, launchVia, directLaunched, flagAtStart,
               exhausted>>

launchHist == <<directTimedOut, verifyIters, forced, titleBlank, vTrace>>

loadVars == <<_model, loadFailed, loads>>
clickHist == <<launchCalls, clickOnReturned, waits>>

mainVars == <<pc, exc, runVars, padVars, envVars, annotate, groundVars, groundHist,
              callsAfterFlag, itemHist, cleaned, launchHist, loadVars, disk,
              stepsBegun, clickHist>>

closeVars == <<wins, caIter, caAttempts, caFoundNone, caIneffective>>
dlgVars   == <<owDialog, otherDlgs, enterOnOverwrite>>
saveVars  == <<svAttempt, yesClicks, owFoundNone>>
dismissVars == <<dMax, dIter, dismissed, errorDialogSeen>>
parseVars == <<pin, presult>>
pxVars    == <<pxin, pxout>>
compVars  == <<cpc, closeVars, dlgVars, saveVars, dismissVars, parseVars, pxVars>>

\* what a step of one component call leaves alone
outsideClose == <<mainVars, dlgVars, saveVars, dismissVars, parseVars, pxVars>>
outsideSave  == <<mainVars, closeVars, parseVars, pxVars>>
outsideParse == <<mainVars, closeVars, dlgVars, saveVars, dismissVars, pxVars>>
outsidePx    == <<mainVars, closeVars, dlgVars, saveVars, dismissVars, parseVars>>

vars == <<mainVars, compVars>>

\* ------------------------------------------------------------ value spaces
NoPoint    == <<"none", 0>>
Points     == {<<"px", 1>>, <<"px", 2>>}
NoShot     == <<"none", 0>>
CallerShot == <<"caller", 0>>
FreshShot(k) == <<"capture", k>>
FileStates == {"missing", "empty", "nonempty"}

\* api.post_filename:  f"post_{post['id']}.txt"
post_filenameFixed(id) == <<"post_", 1, ".txt">>
post_filename(id) == <<"post_", id, ".txt">>

\* The directory listing once the file called `name` is in state f.
DiskWith(d, name, f) == IF f = "nonempty" THEN d \cup {name} ELSE d \ {name}

\* What one backend.ground(img, description) call can do: raise from the
\* transport, raise ValueError from _parse_coordinates, or return a pixel point.
BackendOutcomes ==
    {[kind |-> "InferenceError", pt |-> NoPoint], [kind |-> "ParseError", pt |-> NoPoint]}
    \cup {[kind |-> "ok", pt |-> p] : p \in Points}

\* _LocalBackend.ground starts with self._load(): nothing to do once the model
\* is there, otherwise from_pretrained either returns or raises.  (The vLLM
\* backend has no load step; it behaves like the local one after loading.)
NeedsLoadAlways(m) == TRUE
\* _load(): `if self._model is not None: return`
NeedsLoad(m) == m = "None"

\* _load() either returns (at once, or after loading the weights) or raises
\* while loading them.
LoadOutcomes(m) == IF NeedsLoad(m) THEN {TRUE, FALSE} ELSE {TRUE}

\* _load() returned: the weights are in memory, loaded just now if they were
\* not there.
Loaded ==
    /\ _model' = "loaded"
    /\ loads' = IF NeedsLoad(_model) THEN loads + 1 ELSE loads

\* The default of ground()'s parameter, which ground_with_retry never passes.
save_annotation == TRUE

ShouldAnnotateAlways(cfg) == TRUE
\* if config.ANNOTATE_SCREENSHOTS and save_annotation
ShouldAnnotate(cfg) == cfg /\ save_annotation

\* ------------------------------------------------------------ environment
\* wait_for_window after something was started: an already visible window is
\* found at once, otherwise the window may or may not appear before the deadline.
Appear(w) == IF w THEN {TRUE} ELSE {TRUE, FALSE}

\* close_all_notepad_windows / close_window: each close attempt may or may not
\* be effective.
AfterClose(w) == IF w THEN {FALSE, TRUE} ELSE {FALSE}

\* --------------------------------------------------- ground_with_retry (SpecG)
\* retries = max_retries if max_retries is not None else config.GROUNDING_MAX_RETRIES
RetriesFor(mr) == IF mr.given THEN mr.n ELSE GROUNDING_MAX_RETRIES

NoRetriesArg == [given |-> FALSE, n |-> 0]

\* for attempt in range(1, retries + 1)
LoopContinuesOffByOne(a, r) == a <= r + 1
LoopContinues(a, r) == a <= r

\* screenshot if (screenshot is not None and attempt == 1) else capture_desktop()
CurrentScreenshotReused(shot, a, fresh) == IF shot # NoShot THEN shot ELSE fresh
CurrentScreenshot(shot, a, fresh) ==
    IF shot # NoShot /\ a = 1 THEN shot ELSE fresh

\* Entry of ground_with_retry(description, max_retries, screenshot).
BeginGroundCall(mr, shot) ==
    /\ retries' = RetriesFor(mr)
    /\ supplied' = shot
    /\ attempt' = 1
    /\ last_exc' = "none"
    /\ point' = NoPoint
    /\ shots' = <<>>
    /\ captures' = 0
    /\ gCalls' = 0
    /\ backendFails' = 0
    /\ annotations' = 0

\* The locals of a finished ground_with_retry call go out of scope.
EndGroundCall ==
    /\ retries' = 0
    /\ supplied' = NoShot
    /\ attempt' = 0
    /\ last_exc' = "none"
    /\ point' = NoPoint
    /\ shots' = <<>>
    /\ captures' = 0
    /\ gCalls' = 0
    /\ backendFails' = 0
    /\ annotations' = 0

\* One iteration of the retry loop: take the screenshot, call ground(), which
\* calls the backend and then (if enabled) annotate_result; return on success,
\* record the exception and go on otherwise.
GroundAttempt ==
    /\ pc = "ground"
    /\ LoopContinues(attempt, retries)
    /\ LET shot == CurrentScreenshot(supplied, attempt, FreshShot(captures + 1))
       IN /\ shots' = Append(shots, shot)
          /\ captures' = IF shot = FreshShot(captures + 1) THEN captures + 1 ELSE captures
    /\ gCalls' = gCalls + 1
    /\ launchCalls' = launchCalls + 1
    /\ UNCHANGED <<clickOnReturned, waits>>
    /\ callsAfterFlag' = IF _grounding_disabled THEN callsAfterFlag + 1 ELSE callsAfterFlag
    /\ \E loaded \in LoadOutcomes(_model), out \in BackendOutcomes, annOk \in BOOLEAN :
          IF ~loaded
          THEN \* _load() raised inside backend.ground(): caught by the loop
               /\ out.kind = "InferenceError" /\ annOk
               /\ last_exc' = "LoadError"
               /\ loadFailed' = TRUE
               /\ backendFails' = backendFails + 1
               /\ attempt' = attempt + 1
               /\ UNCHANGED <<pc, point, annotations, _model, loads>>
          ELSE IF out.kind # "ok"
          THEN /\ annOk
               /\ Loaded
               /\ last_exc' = out.kind
               /\ backendFails' = backendFails + 1
               /\ attempt' = attempt + 1
               /\ UNCHANGED <<pc, point, annotations, loadFailed>>
          ELSE IF ShouldAnnotate(annotate) /\ ~annOk
          THEN \* annotate_result raised inside ground(): caught by the loop
               /\ Loaded
               /\ last_exc' = "AnnotateError"
               /\ attempt' = attempt + 1
               /\ UNCHANGED <<pc, point, annotations, backendFails, loadFailed>>
          ELSE /\ (~ShouldAnnotate(annotate) => annOk)
               /\ Loaded
               /\ annotations' = IF ShouldAnnotate(annotate) THEN annotations + 1 ELSE annotations
               /\ point' = out.pt
               /\ pc' = "click"
               /\ UNCHANGED <<attempt, last_exc, backendFails, loadFailed>>
    /\ UNCHANGED <<exc, runVars, padVars, envVars, annotate, retries, supplied,
                   itemHist, cleaned>>
    /\ UNCHANGED compVars
    /\ UNCHANGED launchHist
    /\ UNCHANGED disk
    /\ UNCHANGED stepsBegun

\* (variant) exhaustion swallowed inside launch_notepad: degrade and launch
\* notepad.exe directly instead of raising.
GroundExhaustedFallsBack ==
    /\ pc = "ground"
    /\ ~LoopContinues(attempt, retries)
    /\ exhausted' = TRUE
    /\ _grounding_disabled' = TRUE
    /\ launchVia' = "fallback"
    /\ directLaunched' = TRUE
    /\ winOpen' = TRUE
    /\ hwnd' = 1
    /\ vAttempt' = 1
    /\ pc' = "verify"
    /\ UNCHANGED <<exc, runVars, launch_attempt, saved, file, annotate, groundVars,
                   groundHist, callsAfterFlag, clicks, appearedAt, flagAtStart,
                   cleaned>>
    /\ UNCHANGED compVars
    /\ UNCHANGED launchHist
    /\ UNCHANGED loadVars
    /\ UNCHANGED clickHist
    /\ UNCHANGED disk
    /\ UNCHANGED stepsBegun

\* The loop is over without a return: raise RuntimeError(...) from last_exc.
GroundExhausted ==
    /\ pc = "ground"
    /\ ~LoopContinues(attempt, retries)
    /\ exc' = "RuntimeError"
    /\ exhausted' = TRUE
    /\ pc' = "except"
    /\ UNCHANGED <<runVars, padVars, envVars, annotate, groundVars, groundHist,
                   callsAfterFlag, clicks, appearedAt, launchVia, directLaunched,
                   flagAtStart, cleaned>>
    /\ UNCHANGED compVars
    /\ UNCHANGED launchHist
    /\ UNCHANGED loadVars
    /\ UNCHANGED clickHist
    /\ UNCHANGED disk
    /\ UNCHANGED stepsBegun

\* close_all_notepad_windows is not running.
CloseIdle ==
    /\ wins = 0
    /\ caIter = 0
    /\ caAttempts = 0
    /\ caFoundNone = FALSE
    /\ caIneffective = FALSE

\* save_file_as and dismiss_notepad_dialogs are not running.
SaveIdle ==
    /\ owDialog = FALSE
    /\ otherDlgs = 0
    /\ enterOnOverwrite = FALSE
    /\ svAttempt = 0
    /\ yesClicks = 0
    /\ owFoundNone = FALSE
    /\ dMax = 0
    /\ dIter = 0
    /\ dismissed = 0
    /\ errorDialogSeen = FALSE

\* _parse_coordinates is not running.
ParseIdle ==
    /\ pin = <<"none">>
    /\ presult = <<"unset", 0, 0>>

\* _norm_to_pixels is not running.
PxIdle ==
    /\ pxin = <<0, 0, 0, 0>>
    /\ pxout = <<"unset", 0, 0>>

\* No component call is under check: the run of main() (or one
\* ground_with_retry call) is.
CompIdle ==
    /\ cpc = "idle"
    /\ CloseIdle
    /\ SaveIdle
    /\ ParseIdle
    /\ PxIdle

InitCommon ==
    /\ idx = 1
    /\ results = <<>>
    /\ success = FALSE
    /\ exc = "none"
    /\ _grounding_disabled = FALSE
    /\ launch_attempt = 0
    /\ vAttempt = 0
    /\ hwnd = 0
    /\ saved = "unset"
    /\ annotate \in BOOLEAN
    /\ callsAfterFlag = 0
    /\ clicks = 0
    /\ appearedAt = 0
    /\ launchVia = "none"
    /\ directLaunched = FALSE
    /\ flagAtStart = FALSE
    /\ exhausted = FALSE
    /\ cleaned = FALSE
    /\ directTimedOut = FALSE
    /\ verifyIters = 0
    /\ forced = FALSE
    /\ titleBlank = FALSE
    /\ vTrace = <<>>
    /\ stepsBegun = <<>>
    /\ _model = "None"
    /\ loadFailed = FALSE
    /\ loads = 0
    /\ launchCalls = 0
    /\ waits = 0
    /\ clickOnReturned = FALSE

InitG ==
    /\ InitCommon
    /\ pc = "ground"
    /\ winOpen = FALSE
    /\ file = "missing"
    /\ disk = {}
    /\ \E mr \in {NoRetriesArg} \cup [given : {TRUE}, n : 0..MaxRetriesArg],
          shot \in {NoShot, CallerShot} :
          /\ retries = RetriesFor(mr)
          /\ supplied = shot
    /\ attempt = 1
    /\ last_exc = "none"
    /\ point = NoPoint
    /\ shots = <<>>
    /\ captures = 0
    /\ gCalls = 0
    /\ backendFails = 0
    /\ annotations = 0
    /\ CompIdle

NextG == GroundAttempt \/ GroundExhausted

SpecG == InitG /\ [][NextG]_vars

\* ------------------------------------------------------------ notepad.py
\* `global _grounding_disabled`: launch_notepad works on the module-level flag,
\* so the value it finds is the value the previous launch left.
EntryFlagLocal(flag) == FALSE
EntryFlag(flag) == flag

\* `if _grounding_disabled: ... else: <ground, click, verify>`
UseGroundingAlways(flag) == TRUE
UseGrounding(flag) == ~flag

\* for launch_attempt in range(1, 4)
MoreLaunchAttemptsOffByOne(a) == a <= LaunchAttempts
MoreLaunchAttempts(a) == a < LaunchAttempts

\* `if hwnd is None:` after the ground-click loop
HwndIsNone(h) == h = 0

\* for attempt in range(1, 6)
VerifyLoopContinuesOffByOne(a) == a <= VerifyAttempts + 1
\* (variant) the loop variable of the blank-document loop does not advance.
NextVerifyAttemptStuck(a) == a
\* for attempt in range(1, 6): the next value of `attempt`
NextVerifyAttempt(a) == a + 1

VerifyLoopContinues(a) == a <= VerifyAttempts

\* _launch_notepad_subprocess (and the inline Popen + wait_for_window of the
\* blank-document loop): start notepad.exe, then wait for the window.  The
\* result is the set of window states the wait can observe.
LaunchSubprocess(w) == Appear(w)

\* wait_for_window ran out after notepad.exe was started: raise TimeoutError,
\* which nothing in launch_notepad catches.
LaunchTimeoutRetried ==
    /\ directTimedOut' = TRUE
    /\ pc' = "launch"
    /\ UNCHANGED exc
LaunchTimeout ==
    /\ directTimedOut' = TRUE
    /\ exc' = "TimeoutError"
    /\ pc' = "except"

\* os.path.isfile(full_path) and os.path.getsize(full_path) > 0
VerifiedExistsOnly(f) == f # "missing"
Verified(f) == f = "nonempty"

\* What the save-as keystrokes can leave at the destination path: nothing new
\* (the dialog was aborted), a zero-byte file, or a file with content.
SaveOutcomes(f) == {f, "empty", "nonempty"}

\* launch_notepad, first part: close stale windows, then either launch
\* directly (flag set) or enter the ground-click loop.
LaunchStart ==
    /\ pc = "launch"
    /\ cleaned' = FALSE
    /\ _grounding_disabled' = EntryFlag(_grounding_disabled)
    /\ \E w1 \in AfterClose(winOpen) :
          IF UseGrounding(EntryFlag(_grounding_disabled))
          THEN /\ winOpen' = w1
               /\ hwnd' = 0
               /\ launch_attempt' = 1
               /\ launchVia' = "grounding"
               /\ BeginGroundCall(NoRetriesArg, NoShot)
               /\ pc' = "ground"
               /\ waits' = 0
               /\ UNCHANGED <<exc, vAttempt, directLaunched, directTimedOut>>
          ELSE /\ launchVia' = "subprocess"
               /\ directLaunched' = TRUE
               /\ waits' = 1
               /\ \E w2 \in LaunchSubprocess(w1) :
                     /\ winOpen' = w2
                     /\ IF w2
                        THEN /\ hwnd' = 1
                             /\ vAttempt' = 1
                             /\ pc' = "verify"
                             /\ UNCHANGED <<exc, directTimedOut>>
                        ELSE /\ LaunchTimeout
                             /\ UNCHANGED <<hwnd, vAttempt>>
               /\ UNCHANGED <<launch_attempt, groundVars, groundHist>>
    /\ UNCHANGED <<runVars, saved, file, annotate, callsAfterFlag, clicks,
                   appearedAt, flagAtStart, exhausted, verifyIters, forced,
                   titleBlank, vTrace>>
    /\ UNCHANGED compVars
    /\ UNCHANGED loadVars
    /\ launchCalls' = 0
    /\ clickOnReturned' = FALSE
    /\ UNCHANGED disk
    /\ stepsBegun' = Append(stepsBegun, "launch")

\* (variant) the double-click goes to a fixed point of the screen.
ClickTargetFixed(p) == <<"px", 1>>
\* x, y = engine.ground_with_retry(_NOTEPAD_DESC); automation.double_click(x, y)
ClickTarget(p) == p

\* launch_notepad, one pass of the ground-click loop after ground_with_retry
\* returned: double-click, wait for the window; on a timeout dismiss dialogs
\* and go round again, or, after the last attempt, set the flag and launch
\* directly.
ClickAndWait ==
    /\ pc = "click"
    /\ clicks' = clicks + 1
    /\ \E w \in Appear(winOpen) :
          IF w
          THEN /\ winOpen' = TRUE
               /\ hwnd' = 1
               /\ appearedAt' = launch_attempt
               /\ vAttempt' = 1
               /\ pc' = "verify"
               /\ EndGroundCall
               /\ launchCalls' = 0
               /\ waits' = waits + 1
               /\ UNCHANGED <<exc, _grounding_disabled, launch_attempt, launchVia,
                              directLaunched, directTimedOut>>
          ELSE IF MoreLaunchAttempts(launch_attempt)
          THEN /\ winOpen' = FALSE
               /\ launch_attempt' = launch_attempt + 1
               /\ BeginGroundCall(NoRetriesArg, NoShot)
               /\ UNCHANGED launchCalls
               /\ waits' = waits + 1
               /\ pc' = "ground"
               /\ UNCHANGED <<exc, _grounding_disabled, hwnd, vAttempt, appearedAt,
                              launchVia, directLaunched, directTimedOut>>
          ELSE /\ HwndIsNone(hwnd)
               /\ _grounding_disabled' = TRUE
               /\ launchVia' = "fallback"
               /\ directLaunched' = TRUE
               /\ EndGroundCall
               /\ launchCalls' = 0
               /\ waits' = waits + 2
               /\ \E w2 \in LaunchSubprocess(FALSE) :
                     /\ winOpen' = w2
                     /\ IF w2
                        THEN /\ hwnd' = 1
                             /\ vAttempt' = 1
                             /\ pc' = "verify"
                             /\ UNCHANGED <<exc, directTimedOut>>
                        ELSE /\ LaunchTimeout
                             /\ UNCHANGED <<hwnd, vAttempt>>
               /\ UNCHANGED <<launch_attempt, appearedAt>>
    /\ UNCHANGED <<runVars, saved, file, annotate, callsAfterFlag, flagAtStart, exhausted,
                   cleaned, verifyIters, forced, titleBlank,
                   vTrace>>
    /\ UNCHANGED compVars
    /\ UNCHANGED loadVars
    /\ clickOnReturned' = (point \in Points /\ ClickTarget(point) = point)
    /\ UNCHANGED disk
    /\ UNCHANGED stepsBegun

\* The titles GetWindowText can return for the focused Notepad window: the one
\* of a blank document and the one of a stale tab.
BlankTitle == "Untitled - Notepad"
StaleTitle == "post_1.txt - Notepad"
Titles == {BlankTitle, StaleTitle}

\* (variant) every title is taken to be that of a blank document.
IsBlankTitleAny(t) == TRUE
\* "untitled" in title.lower()
IsBlankTitle(t) == t = BlankTitle

\* (variant) a missing window is not relaunched: the timeout of the first
\* wait_for_window leaves launch_notepad.
VerifyFindNoRelaunch(open) ==
    IF open THEN {[w |-> TRUE, did |-> <<"find">>]}
            ELSE {[w |-> FALSE, did |-> <<"find">>]}
\* The try/except around wait_for_window in the blank-document loop: the
\* window is found, or notepad.exe is started and the window awaited again.
\* `w` tells whether a window is held afterwards, `did` what was done.
VerifyFind(open) ==
    IF open THEN {[w |-> TRUE, did |-> <<"find">>]}
            ELSE {[w |-> w2, did |-> <<"find", "relaunch">>] :
                    w2 \in LaunchSubprocess(FALSE)}
Relaunched(f) == \E i \in 1..Len(f.did) : f.did[i] = "relaunch"

\* launch_notepad, one iteration of the blank-document loop: dismiss dialogs,
\* find the window (relaunching notepad.exe if it is gone), read the title;
\* return if it is blank, close the stale tab with Ctrl+W otherwise.
VerifyIteration ==
    /\ pc = "verify"
    /\ VerifyLoopContinues(vAttempt)
    /\ \E f \in VerifyFind(winOpen), t \in Titles, stays \in BOOLEAN :
          /\ directLaunched' = (directLaunched \/ Relaunched(f))
          /\ waits' = waits + Len(f.did)
          /\ IF ~f.w
             THEN /\ LaunchTimeout
                  /\ winOpen' = FALSE
                  /\ vTrace' = <<"dismiss">> \o f.did \o <<"timeout">>
                  /\ UNCHANGED <<hwnd, vAttempt, titleBlank>>
             ELSE IF IsBlankTitle(t)
             THEN /\ winOpen' = TRUE
                  /\ hwnd' = 1
                  /\ pc' = "type"
                  /\ titleBlank' = (t = BlankTitle)
                  /\ vTrace' = <<"dismiss">> \o f.did \o <<"focus", t, "return">>
                  /\ UNCHANGED <<exc, vAttempt, directTimedOut>>
             ELSE /\ winOpen' = stays
                  /\ titleBlank' = FALSE
                  /\ hwnd' = 1
                  /\ vAttempt' = NextVerifyAttempt(vAttempt)
                  /\ vTrace' = <<"dismiss">> \o f.did
                                  \o <<"focus", t, "ctrl_w", "dismiss">>
                  /\ UNCHANGED <<exc, pc, directTimedOut>>
    /\ verifyIters' = verifyIters + 1
    /\ UNCHANGED <<runVars, _grounding_disabled, launch_attempt, saved, file,
                   annotate, groundVars, groundHist, callsAfterFlag, clicks,
                   appearedAt, launchVia, flagAtStart, exhausted, cleaned, forced>>
    /\ UNCHANGED compVars
    /\ UNCHANGED loadVars
    /\ UNCHANGED <<launchCalls, clickOnReturned>>
    /\ UNCHANGED disk
    /\ UNCHANGED stepsBegun

\* (variant) the forced clean launch inspects the title once more and gives
\* up if the document is still not blank.
ForcedCleanLaunchChecked ==
    /\ pc = "verify"
    /\ ~VerifyLoopContinues(vAttempt)
    /\ directLaunched' = TRUE
    /\ forced' = TRUE
    /\ \E w1 \in AfterClose(winOpen) : \E w2 \in LaunchSubprocess(w1) :
          /\ winOpen' = w2
          /\ IF w2
             THEN /\ hwnd' = 1
                  /\ \E b \in BOOLEAN :
                        /\ titleBlank' = b
                        /\ IF b THEN pc' = "type" /\ UNCHANGED exc
                                ELSE pc' = "except" /\ exc' = "RuntimeError"
                  /\ UNCHANGED directTimedOut
             ELSE /\ LaunchTimeout
                  /\ UNCHANGED <<hwnd, titleBlank>>
    /\ UNCHANGED <<runVars, _grounding_disabled, launch_attempt, vAttempt, saved,
                   file, annotate, groundVars, groundHist, callsAfterFlag, clicks,
                   appearedAt, launchVia, flagAtStart, exhausted, cleaned,
                   verifyIters, vTrace>>
    /\ UNCHANGED compVars
    /\ UNCHANGED loadVars
    /\ waits' = waits + 1
    /\ UNCHANGED <<launchCalls, clickOnReturned>>
    /\ UNCHANGED disk
    /\ UNCHANGED stepsBegun

\* launch_notepad, after the blank-document loop ran out: close everything,
\* start notepad.exe, wait for the window and return it unchecked.
ForcedCleanLaunch ==
    /\ pc = "verify"
    /\ ~VerifyLoopContinues(vAttempt)
    /\ directLaunched' = TRUE
    /\ forced' = TRUE
    /\ \E w1 \in AfterClose(winOpen) : \E w2 \in LaunchSubprocess(w1) :
          /\ winOpen' = w2
          /\ IF w2
             THEN /\ hwnd' = 1
                  /\ titleBlank' \in BOOLEAN
                  /\ pc' = "type"
                  /\ UNCHANGED <<exc, directTimedOut>>
             ELSE /\ LaunchTimeout
                  /\ UNCHANGED <<hwnd, titleBlank>>
    /\ UNCHANGED <<runVars, _grounding_disabled, launch_attempt, vAttempt, saved,
                   file, annotate, groundVars, groundHist, callsAfterFlag, clicks,
                   appearedAt, launchVia, flagAtStart, exhausted, cleaned,
                   verifyIters, vTrace>>
    /\ UNCHANGED compVars
    /\ UNCHANGED loadVars
    /\ waits' = waits + 1
    /\ UNCHANGED <<launchCalls, clickOnReturned>>
    /\ UNCHANGED disk
    /\ UNCHANGED stepsBegun

\* (variant) main calls close_notepad right after type_post_content.
TypePostThenClose ==
    /\ pc = "type"
    /\ \E raises \in BOOLEAN :
          IF raises
          THEN exc' = "Exception" /\ pc' = "except"
          ELSE pc' = "close" /\ UNCHANGED exc
    /\ UNCHANGED <<runVars, padVars, envVars, annotate, groundVars, groundHist,
                   callsAfterFlag, itemHist, cleaned>>
    /\ UNCHANGED compVars
    /\ UNCHANGED launchHist
    /\ UNCHANGED loadVars
    /\ waits' = 0
    /\ UNCHANGED <<launchCalls, clickOnReturned>>
    /\ UNCHANGED disk
    /\ stepsBegun' = Append(stepsBegun, "type")

\* type_post_content(post): paste (or type) the content; anything it raises
\* that its own try does not catch reaches main.
TypePost ==
    /\ pc = "type"
    /\ \E raises \in BOOLEAN :
          IF raises
          THEN exc' = "Exception" /\ pc' = "except"
          ELSE pc' = "save" /\ UNCHANGED exc
    /\ UNCHANGED <<runVars, padVars, envVars, annotate, groundVars, groundHist,
                   callsAfterFlag, itemHist, cleaned>>
    /\ UNCHANGED compVars
    /\ UNCHANGED launchHist
    /\ UNCHANGED loadVars
    /\ waits' = 0
    /\ UNCHANGED <<launchCalls, clickOnReturned>>
    /\ UNCHANGED disk
    /\ stepsBegun' = Append(stepsBegun, "type")

\* save_post(post, target_dir): save_file_as, then verify the file on disk.
SavePost ==
    /\ pc = "save"
    /\ \E raises \in BOOLEAN, f \in SaveOutcomes(file) :
          IF raises
          THEN /\ f = file
               /\ exc' = "Exception"
               /\ pc' = "except"
               /\ UNCHANGED <<file, saved, disk>>
          ELSE /\ file' = f
               /\ disk' = DiskWith(disk, post_filename(idx), f)
               /\ saved' = IF Verified(f) THEN "true" ELSE "false"
               /\ pc' = "close"
               /\ UNCHANGED exc
    /\ UNCHANGED <<runVars, _grounding_disabled, launch_attempt, vAttempt, hwnd,
                   winOpen, annotate, groundVars, groundHist, callsAfterFlag,
                   itemHist, cleaned>>
    /\ UNCHANGED compVars
    /\ UNCHANGED launchHist
    /\ UNCHANGED loadVars
    /\ UNCHANGED clickHist
    /\ stepsBegun' = Append(stepsBegun, "save")

\* ---------------------------------------------------------------- main.py
\* the status main records once launch, type, save and close all returned
ItemStatusAlwaysOk(s) == "ok"
ItemStatus(s) == IF s = "true" THEN "ok" ELSE "error"

ItemReason(s) == IF s = "true" THEN "none" ELSE "save not verified on disk"

\* except TimeoutError / except RuntimeError / except Exception
CaughtKnownOnly(e) == e \in {"TimeoutError", "RuntimeError"}
Caught(e) == e \in {"TimeoutError", "RuntimeError", "Exception"}

\* finally: if not success: close_notepad()
NeedsCleanupOnException(ok, e) == e # "none"
NeedsCleanup(ok, e) == ~ok

\* close_notepad(hwnd), then the result record of an item whose four steps
\* all returned.
CloseAndRecord ==
    /\ pc = "close"
    /\ \E raises \in BOOLEAN, w \in AfterClose(winOpen) :
          /\ winOpen' = w
          /\ IF raises
             THEN /\ exc' = "Exception"
                  /\ pc' = "except"
                  /\ UNCHANGED <<results, success>>
             ELSE /\ results' = Append(results,
                        [id |-> idx, status |-> ItemStatus(saved),
                         reason |-> ItemReason(saved)])
                  /\ success' = (ItemStatus(saved) = "ok")
                  /\ pc' = "finally"
                  /\ UNCHANGED exc
    /\ UNCHANGED <<idx, padVars, file, annotate, groundVars, groundHist,
                   callsAfterFlag, itemHist, cleaned>>
    /\ UNCHANGED compVars
    /\ UNCHANGED launchHist
    /\ UNCHANGED loadVars
    /\ UNCHANGED clickHist
    /\ UNCHANGED disk
    /\ stepsBegun' = Append(stepsBegun, "close")

\* The three except clauses of the item's try: each appends an error record.
Except ==
    /\ pc = "except"
    /\ Caught(exc)
    /\ results' = Append(results, [id |-> idx, status |-> "error", reason |-> exc])
    /\ pc' = "finally"
    /\ EndGroundCall
    /\ UNCHANGED <<idx, success, exc, padVars, envVars, annotate, callsAfterFlag,
                   itemHist, cleaned>>
    /\ UNCHANGED compVars
    /\ UNCHANGED launchHist
    /\ UNCHANGED loadVars
    /\ launchCalls' = 0
    /\ waits' = 0
    /\ UNCHANGED clickOnReturned
    /\ UNCHANGED disk
    /\ UNCHANGED stepsBegun

\* finally: a failed item gets a guarded close_notepad() of whatever Notepad
\* window is found.
Finally ==
    /\ pc = "finally"
    /\ IF NeedsCleanup(success, exc)
       THEN /\ cleaned' = TRUE
            /\ \E w \in AfterClose(winOpen) : winOpen' = w
       ELSE UNCHANGED <<cleaned, winOpen>>
    /\ pc' = "sleep"
    /\ UNCHANGED <<exc, runVars, padVars, file, annotate, groundVars, groundHist,
                   callsAfterFlag, itemHist>>
    /\ UNCHANGED compVars
    /\ UNCHANGED launchHist
    /\ UNCHANGED loadVars
    /\ UNCHANGED clickHist
    /\ UNCHANGED disk
    /\ UNCHANGED stepsBegun

\* time.sleep(1.0) and the loop header: the next post, or the summary.
NextItem ==
    /\ pc = "sleep"
    /\ idx' = idx + 1
    /\ pc' = IF idx + 1 <= POSTS_COUNT THEN "launch" ELSE "summary"
    /\ success' = FALSE
    /\ exc' = "none"
    /\ launch_attempt' = 0
    /\ vAttempt' = 0
    /\ hwnd' = 0
    /\ saved' = "unset"
    /\ clicks' = 0
    /\ appearedAt' = 0
    /\ launchVia' = "none"
    /\ directLaunched' = FALSE
    /\ flagAtStart' = _grounding_disabled
    /\ exhausted' = FALSE
    /\ directTimedOut' = FALSE
    /\ verifyIters' = 0
    /\ forced' = FALSE
    /\ titleBlank' = FALSE
    /\ vTrace' = <<>>
    /\ file' \in (IF idx + 1 <= POSTS_COUNT THEN FileStates ELSE {"missing"})
    /\ disk' = IF idx + 1 <= POSTS_COUNT
               THEN DiskWith(disk, post_filename(idx + 1), file')
               ELSE disk
    /\ UNCHANGED <<results, _grounding_disabled, winOpen, annotate, groundVars,
                   groundHist, callsAfterFlag, cleaned>>
    /\ UNCHANGED compVars
    /\ loadFailed' = FALSE
    /\ UNCHANGED <<_model, loads>>
    /\ stepsBegun' = <<>>
    /\ launchCalls' = 0
    /\ waits' = 0
    /\ clickOnReturned' = FALSE

Init ==
    /\ InitCommon
    /\ pc = IF POSTS_COUNT >= 1 THEN "launch" ELSE "summary"
    /\ winOpen \in BOOLEAN
    /\ file \in FileStates
    /\ disk = DiskWith({}, post_filename(1), file)
    /\ retries = 0
    /\ supplied = NoShot
    /\ attempt = 0
    /\ last_exc = "none"
    /\ point = NoPoint
    /\ shots = <<>>
    /\ captures = 0
    /\ gCalls = 0
    /\ backendFails = 0
    /\ annotations = 0
    /\ CompIdle

Next ==
    \/ LaunchStart
    \/ GroundAttempt
    \/ GroundExhausted
    \/ ClickAndWait
    \/ VerifyIteration
    \/ ForcedCleanLaunch
    \/ TypePost
    \/ SavePost
    \/ CloseAndRecord
    \/ Except
    \/ Finally
    \/ NextItem

Spec == Init /\ [][Next]_vars

\* The run up to the end of the second launch: the first item from launch to
\* sleep, then the launch of the item after it, which is the first that can
\* find the degradation flag set.
FirstItem == idx = 1

NextLaunch ==
    \/ LaunchStart
    \/ GroundAttempt
    \/ GroundExhausted
    \/ ClickAndWait
    \/ VerifyIteration
    \/ ForcedCleanLaunch
    \/ TypePost /\ FirstItem
    \/ SavePost /\ FirstItem
    \/ CloseAndRecord /\ FirstItem
    \/ Except /\ FirstItem
    \/ Finally /\ FirstItem
    \/ NextItem /\ FirstItem

\* main() is a single thread of control that always goes on to its next
\* statement: a step that can be taken eventually is.
SpecLaunch == Init /\ [][NextLaunch]_vars /\ WF_vars(NextLaunch)

\* -------------------------------------------- cooperative environment
\* The environment of the end-to-end scenario: nothing raises, the backend
\* returns a point on its first call, the window appears after the click, its
\* title is blank, and the save leaves a file with content.
Cooperative ==
    /\ pc' # "except"
    /\ (pc = "ground" => pc' = "click")
    /\ (pc = "click" => pc' = "verify")
    /\ (pc = "verify" => pc' = "type")
    /\ (pc = "save" => file' = "nonempty")

NextCoop ==
    \/ LaunchStart /\ Cooperative
    \/ GroundAttempt /\ Cooperative
    \/ ClickAndWait /\ Cooperative
    \/ VerifyIteration /\ Cooperative
    \/ TypePost /\ Cooperative
    \/ SavePost /\ Cooperative
    \/ CloseAndRecord /\ Cooperative
    \/ Finally /\ Cooperative
    \/ NextItem /\ Cooperative

SpecCoop == Init /\ [][NextCoop]_vars

\* ------------------------------------------------- component calls, idle main
\* The run of main() has not started; one library call is under check.
MainIdle ==
    /\ pc = "idle"
    /\ idx = 1
    /\ results = <<>>
    /\ success = FALSE
    /\ exc = "none"
    /\ _grounding_disabled = FALSE
    /\ launch_attempt = 0
    /\ vAttempt = 0
    /\ hwnd = 0
    /\ saved = "unset"
    /\ winOpen = FALSE
    /\ file = "missing"
    /\ disk = {}
    /\ annotate = FALSE
    /\ retries = 0
    /\ supplied = NoShot
    /\ attempt = 0
    /\ last_exc = "none"
    /\ point = NoPoint
    /\ shots = <<>>
    /\ captures = 0
    /\ gCalls = 0
    /\ backendFails = 0
    /\ annotations = 0
    /\ callsAfterFlag = 0
    /\ clicks = 0
    /\ appearedAt = 0
    /\ launchVia = "none"
    /\ directLaunched = FALSE
    /\ flagAtStart = FALSE
    /\ exhausted = FALSE
    /\ cleaned = FALSE
    /\ directTimedOut = FALSE
    /\ verifyIters = 0
    /\ forced = FALSE
    /\ titleBlank = FALSE
    /\ vTrace = <<>>
    /\ stepsBegun = <<>>
    /\ _model = "None"
    /\ loadFailed = FALSE
    /\ loads = 0
    /\ launchCalls = 0
    /\ waits = 0
    /\ clickOnReturned = FALSE

\* ------------------------------------- close_all_notepad_windows (SpecClose)
\* for _ in range(20)
CloseLoopUnbounded(i) == TRUE
CloseLoopContinues(i) == i < CloseAllLimit

\* One iteration: look for a Notepad window; none: break.  Otherwise focus it,
\* send Alt+F4, dismiss dialogs, send Alt+N if it is still there, closed += 1.
\* Whether the window is gone afterwards is up to the application.
CloseAllIteration ==
    /\ cpc = "close_all"
    /\ CloseLoopContinues(caIter)
    /\ IF wins = 0
       THEN /\ caFoundNone' = TRUE
            /\ cpc' = "closed_all"
            /\ UNCHANGED <<wins, caIter, caAttempts, caIneffective>>
       ELSE /\ \E gone \in BOOLEAN :
                  /\ wins' = IF gone THEN wins - 1 ELSE wins
                  /\ caIneffective' = (caIneffective \/ ~gone)
            /\ caAttempts' = caAttempts + 1
            /\ caIter' = caIter + 1
            /\ UNCHANGED <<cpc, caFoundNone>>
    /\ UNCHANGED outsideClose

\* range(20) is used up: fall out of the loop and return `closed`.
CloseAllLoopEnd ==
    /\ cpc = "close_all"
    /\ ~CloseLoopContinues(caIter)
    /\ cpc' = "closed_all"
    /\ UNCHANGED <<closeVars, outsideClose>>

\* launch_notepad calls close_all_notepad_windows() first; only when it has
\* returned does it test the flag and go on to ground_with_retry or to
\* _launch_notepad_subprocess.
LaunchMayProceedEarly(c) == c \in {"close_all", "closed_all"}
LaunchMayProceed(c) == c = "closed_all"

LaunchProceeds ==
    /\ LaunchMayProceed(cpc)
    /\ \E flag \in BOOLEAN :
          cpc' = IF UseGrounding(flag) THEN "ground" ELSE "subprocess"
    /\ UNCHANGED <<closeVars, outsideClose>>

InitClose ==
    /\ MainIdle
    /\ cpc = "close_all"
    /\ wins \in 0..MaxWins
    /\ caIter = 0
    /\ caAttempts = 0
    /\ caFoundNone = FALSE
    /\ caIneffective = FALSE
    /\ SaveIdle
    /\ ParseIdle
    /\ PxIdle

NextClose == CloseAllIteration \/ CloseAllLoopEnd \/ LaunchProceeds

SpecClose == InitClose /\ [][NextClose]_vars

\* ------------------------------------------------ save_file_as (SpecSave)
\* for attempt in range(3)
SaveLoopContinuesOffByOne(i) == i <= SaveConfirmLimit
SaveLoopContinues(i) == i < SaveConfirmLimit

\* for _ in range(max_dismissals)
DismissLoopContinues(i, m) == i < m

\* Entry of dismiss_notepad_dialogs(max_dismissals=m).
BeginDismiss(m) ==
    /\ dMax' = m
    /\ dIter' = 0
    /\ dismissed' = 0
    /\ errorDialogSeen' = FALSE

\* One iteration of the overwrite loop: look for the "Confirm Save As" window;
\* none: break and go on to dismiss_notepad_dialogs.  Otherwise select Yes
\* (BM_CLICK on control 6, Alt+Y if that raises); the dialog may or may not be
\* gone afterwards.
SaveOverwriteIteration ==
    /\ cpc = "overwrite"
    /\ SaveLoopContinues(svAttempt)
    /\ IF ~owDialog
       THEN /\ owFoundNone' = TRUE
            /\ cpc' = "dismiss"
            /\ BeginDismiss(SaveDismissals)
            /\ UNCHANGED <<owDialog, svAttempt, yesClicks>>
       ELSE /\ yesClicks' = yesClicks + 1
            /\ svAttempt' = svAttempt + 1
            /\ owDialog' \in BOOLEAN
            /\ UNCHANGED <<cpc, owFoundNone, dismissVars>>
    /\ UNCHANGED <<otherDlgs, enterOnOverwrite, outsideSave>>

\* range(3) is used up: go on to dismiss_notepad_dialogs(max_dismissals=3).
SaveOverwriteLoopEnd ==
    /\ cpc = "overwrite"
    /\ ~SaveLoopContinues(svAttempt)
    /\ cpc' = "dismiss"
    /\ BeginDismiss(SaveDismissals)
    /\ UNCHANGED <<dlgVars, saveVars, outsideSave>>

\* dismiss_notepad_dialogs, one iteration of the outer loop: enumerate the
\* visible windows of class #32770; none: break.  Otherwise, for every one of
\* them, bring it to the front and press Enter, counting it unless that raised.
\* The overwrite confirmation is such a window.  A dialog that got Enter may or
\* may not be gone afterwards.
DismissIteration ==
    /\ cpc = "dismiss"
    /\ DismissLoopContinues(dIter, dMax)
    /\ IF otherDlgs = 0 /\ ~owDialog
       THEN /\ cpc' = "dismissed"
            /\ UNCHANGED <<dlgVars, dismissVars>>
       ELSE /\ \E pressedOw \in (IF owDialog THEN BOOLEAN ELSE {FALSE}),
                  pressed \in 0..otherDlgs, left \in 0..otherDlgs :
                  /\ left >= otherDlgs - pressed
                  /\ dismissed' = dismissed + pressed + (IF pressedOw THEN 1 ELSE 0)
                  /\ otherDlgs' = left
                  /\ owDialog' \in (IF pressedOw THEN BOOLEAN ELSE {owDialog})
                  /\ enterOnOverwrite' = (enterOnOverwrite \/ pressedOw)
            /\ errorDialogSeen' = (errorDialogSeen \/ otherDlgs > 0)
            /\ dIter' = dIter + 1
            /\ UNCHANGED <<cpc, dMax>>
    /\ UNCHANGED <<saveVars, outsideSave>>

\* range(max_dismissals) is used up: return `dismissed`.
DismissLoopEnd ==
    /\ cpc = "dismiss"
    /\ ~DismissLoopContinues(dIter, dMax)
    /\ cpc' = "dismissed"
    /\ UNCHANGED <<dlgVars, saveVars, dismissVars, outsideSave>>

\* save_file_as after dismiss_notepad_dialogs returned: log and
\* `return full_path`.
SaveReturn ==
    /\ cpc = "dismissed"
    /\ cpc' = "returned"
    /\ UNCHANGED <<dlgVars, saveVars, dismissVars, outsideSave>>

\* save_file_as after Ctrl+Shift+S, the typed path and Enter: the destination
\* may exist (overwrite confirmation shown) and error popups may be open.
InitSave ==
    /\ MainIdle
    /\ cpc = "overwrite"
    /\ CloseIdle
    /\ ParseIdle
    /\ PxIdle
    /\ owDialog \in BOOLEAN
    /\ otherDlgs \in 0..MaxDialogs
    /\ enterOnOverwrite = FALSE
    /\ svAttempt = 0
    /\ yesClicks = 0
    /\ owFoundNone = FALSE
    /\ dMax = 0
    /\ dIter = 0
    /\ dismissed = 0
    /\ errorDialogSeen = FALSE

NextSave ==
    \/ SaveOverwriteIteration
    \/ SaveOverwriteLoopEnd
    \/ DismissIteration
    \/ DismissLoopEnd
    \/ SaveReturn

SpecSave == InitSave /\ [][NextSave]_vars

\* ---------------------------------------------- _parse_coordinates (SpecP)
\* Texts are sequences of characters, each a string.
DigitChars == <<"0", "1", "2", "3", "4", "5", "6", "7", "8", "9">>
IsDigit(c) == \E d \in 1..Len(DigitChars) : DigitChars[d] = c
DigitVal(c) == (CHOOSE d \in 1..Len(DigitChars) : DigitChars[d] = c) - 1

\* what str.strip() removes and what \s matches
IsSpace(c) == c \in {" ", "\t", "\n"}

CharAt(t, i) == IF i >= 1 /\ i <= Len(t) THEN t[i] ELSE ""

\* the grave accent (U+0060), which cannot be written inside a string here
BackTick == "bt"

\* response_text.strip()
RECURSIVE lstrip(_)
lstrip(t) == IF t # <<>> /\ IsSpace(Head(t)) THEN lstrip(Tail(t)) ELSE t

RECURSIVE rstrip(_)
rstrip(t) == IF t # <<>> /\ IsSpace(t[Len(t)]) THEN rstrip(SubSeq(t, 1, Len(t) - 1)) ELSE t

strip(t) == rstrip(lstrip(t))

\* .replace("```", ""): every occurrence, left to right, without overlap
RECURSIVE RemoveFences(_)
RemoveFences(t) ==
    IF t = <<>> THEN <<>>
    ELSE IF CharAt(t, 1) = BackTick /\ CharAt(t, 2) = BackTick /\ CharAt(t, 3) = BackTick
    THEN RemoveFences(SubSeq(t, 4, Len(t)))
    ELSE <<Head(t)>> \o RemoveFences(Tail(t))

\* \d+ at index i, greedy: the index after the digits (i if there is none)
RECURSIVE DigitsEnd(_, _)
DigitsEnd(t, i) == IF IsDigit(CharAt(t, i)) THEN DigitsEnd(t, i + 1) ELSE i

\* \d+(?:\.\d+)? at index i: the index after the number, 0 if there is none
NumEnd(t, i) ==
    LET e == DigitsEnd(t, i)
        f == DigitsEnd(t, e + 1)
    IN IF e = i THEN 0
       ELSE IF CharAt(t, e) = "." /\ f > e + 1 THEN f
       ELSE e

\* \s* at index i, greedy: the index after the whitespace
RECURSIVE SkipSpacesFrom(_, _)
SkipSpacesFrom(t, i) == IF IsSpace(CharAt(t, i)) THEN SkipSpacesFrom(t, i + 1) ELSE i

SkipSpacesNone(t, i) == i
SkipSpaces(t, i) == SkipSpacesFrom(t, i)

\* int(float(group)) of the number starting at index i: its integer part
RECURSIVE DigitsValue(_, _, _)
DigitsValue(t, i, acc) ==
    IF IsDigit(CharAt(t, i)) THEN DigitsValue(t, i + 1, acc * 10 + DigitVal(CharAt(t, i)))
    ELSE acc

IntOfFloat(t, i) == DigitsValue(t, i, 0)

NoMatch == <<"none", 0, 0, 0>>

\* "number separator number" at index i: the separator is \s*,\s* for the
\* comma shape and \s+ for the whitespace shape.  A match gives the indices
\* where the two groups start and the index after the match.
PairAt(pat, t, i) ==
    LET n1 == NumEnd(t, i)
        k  == SkipSpaces(t, n1)
        l  == IF pat = "space" THEN k ELSE SkipSpaces(t, k + 1)
        n2 == NumEnd(t, l)
    IN IF n1 = 0 THEN NoMatch
       ELSE IF pat = "space" /\ k = n1 THEN NoMatch
       ELSE IF pat # "space" /\ CharAt(t, k) # "," THEN NoMatch
       ELSE IF n2 = 0 THEN NoMatch
       ELSE <<"match", i, l, n2>>

\* re.match of one pattern at index i
MatchAt(pat, t, i) ==
    IF pat = "paren"
    THEN IF CharAt(t, i) # "(" THEN NoMatch
         ELSE LET m == PairAt("comma", t, SkipSpaces(t, i + 1))
              IN IF m[1] = "match" /\ CharAt(t, SkipSpaces(t, m[4])) = ")"
                 THEN m ELSE NoMatch
    ELSE PairAt(pat, t, i)

\* re.search(pat, text): the match at the left-most index that has one
RECURSIVE Search(_, _, _)
Search(pat, t, i) ==
    IF i > Len(t) THEN NoMatch
    ELSE LET m == MatchAt(pat, t, i)
         IN IF m[1] = "match" THEN m ELSE Search(pat, t, i + 1)

\* patterns = [ (x, y) | x, y | x y ]
patternsReversed == <<"space", "comma", "paren">>
patterns == <<"paren", "comma", "space">>

\* for pat in patterns: ... return on the first pattern that matches;
\* raise ValueError if none does
RECURSIVE TryPatterns(_, _, _)
TryPatterns(pats, t, k) ==
    IF k > Len(pats) THEN <<"ValueError", 0, 0>>
    ELSE LET m == Search(pats[k], t, 1)
         IN IF m[1] = "match"
            THEN <<"ok", IntOfFloat(t, m[2]), IntOfFloat(t, m[3])>>
            ELSE TryPatterns(pats, t, k + 1)

\* (variant) a default point instead of the ValueError
_parse_coordinatesDefault(response_text) ==
    LET r == TryPatterns(patterns, RemoveFences(strip(response_text)), 1)
    IN IF r[1] = "ValueError" THEN <<"ok", 0, 0>> ELSE r

_parse_coordinates(response_text) ==
    TryPatterns(patterns, RemoveFences(strip(response_text)), 1)

\* --- the texts handed to the parser
\* decimal rendering of a non-negative integer
RECURSIVE Dec(_)
Dec(n) == IF n < 10 THEN <<DigitChars[n + 1]>>
          ELSE Dec(n \div 10) \o <<DigitChars[(n % 10) + 1]>>

\* a pair written in one of the three accepted shapes
Shaped(shape, a, b) ==
    CASE shape = "paren" -> <<"(">> \o Dec(a) \o <<",", " ">> \o Dec(b) \o <<")">>
      [] shape = "comma" -> Dec(a) \o <<",", " ">> \o Dec(b)
      [] shape = "space" -> Dec(a) \o <<" ">> \o Dec(b)

Shapes == {"paren", "comma", "space"}

\* "(a, b)", "( a , b )", "a, b", "a b" and "```(a, b)```"
Formats == {"(a, b)", "( a , b )", "a, b", "a b", "fenced"}

Formatted(fmt, a, b) ==
    CASE fmt = "(a, b)" -> Shaped("paren", a, b)
      [] fmt = "( a , b )" ->
            <<"(", " ">> \o Dec(a) \o <<" ", ",", " ">> \o Dec(b) \o <<" ", ")">>
      [] fmt = "a, b" -> Shaped("comma", a, b)
      [] fmt = "a b" -> Shaped("space", a, b)
      [] fmt = "fenced" ->
            <<BackTick, BackTick, BackTick>> \o Shaped("paren", a, b)
            \o <<BackTick, BackTick, BackTick>>

\* "Answer: <pair> or <pair> end": two pairs surrounded by prose
TwoPairs(s1, s2, p, q) ==
    <<"A", "n", "s", "w", "e", "r", ":", " ">> \o Shaped(s1, p[1], p[2])
    \o <<" ", "o", "r", " ">> \o Shaped(s2, q[1], q[2])
    \o <<" ", "e", "n", "d">>

\* coordinate values with one, two and three digits, and the ends of the range
SampleCoords == {0, 9, 10, 99, 100, 523, 741, MaxCoord}

\* every pair with one component running over the whole range
CoordPairs ==
    ((0..MaxCoord) \X SampleCoords) \cup (SampleCoords \X (0..MaxCoord))

SingleInputs == {<<"single", f, p[1], p[2]>> : f \in Formats, p \in CoordPairs}

DoubleInputs ==
    {<<"double", s1, s2, p, q>> :
        s1 \in Shapes, s2 \in Shapes,
        p \in {<<1, 2>>, <<523, 741>>}, q \in {<<3, 4>>, <<0, MaxCoord>>}}

\* texts that hold no pair of numbers in any of the three shapes
NoPairNames ==
    {"prose", "empty", "blank", "one number",
     "one float", "open pair", "comma only", "letters",
     "glued", "other separator"}

NoPairText(name) ==
    CASE name = "prose" -> <<"n", "o", " ", "c", "o", "o", "r", "d", "i", "n", "a", "t", "e", "s", " ", "h", "e", "r", "e">>
      [] name = "empty" -> <<>>
      [] name = "blank" -> <<" ", " ">>
      [] name = "one number" -> <<"5", "2", "3">>
      [] name = "one float" -> <<"5", "2", "3", ".", "7">>
      [] name = "open pair" -> <<"(", "5", "2", "3", ",", " ", ")">>
      [] name = "comma only" -> <<"5", "2", "3", ",">>
      [] name = "letters" -> <<"x", ",", " ", "y">>
      [] name = "glued" -> <<"a", "1", "b", "2">>
      [] name = "other separator" -> <<"5", "2", "3", ";", "7", "4", "1">>

NoPairInputs == {<<"nopair", n>> : n \in NoPairNames}

ParseInputs == SingleInputs \cup DoubleInputs \cup NoPairInputs

Render(in) ==
    IF in[1] = "single" THEN Formatted(in[2], in[3], in[4])
    ELSE IF in[1] = "double" THEN TwoPairs(in[2], in[3], in[4], in[5])
    ELSE NoPairText(in[2])

\* One call _parse_coordinates(text).
ParseCall ==
    /\ cpc = "parse"
    /\ presult' = _parse_coordinates(Render(pin))
    /\ cpc' = "parsed"
    /\ UNCHANGED <<pin, outsideParse>>

InitP ==
    /\ MainIdle
    /\ cpc = "parse"
    /\ CloseIdle
    /\ SaveIdle
    /\ PxIdle
    /\ pin \in ParseInputs
    /\ presult = <<"unset", 0, 0>>

NextP == ParseCall

SpecP == InitP /\ [][NextP]_vars

\* ------------------------------------------------ _norm_to_pixels (SpecPx)
\* A positive double is [m |-> its 53 significant bits, first one first,
\* f |-> the number of those bits that lie after the binary point]; its value
\* is m * 2^(-f).  Zero is [m |-> <<>>, f |-> 0].
FloatZero == [m |-> <<>>, f |-> 0]

\* The arithmetic below works on pieces of LimbBits bits, so that no
\* intermediate value leaves the integers the checker computes with.
Pow2(k) == 2 ^ k

\* the last w binary digits of a natural number, first one first
Pad(n, w) == [i \in 1..w |-> (n \div Pow2(w - i)) % 2]

HasOne(bits) == \E i \in 1..Len(bits) : bits[i] = 1

\* bits without its leading zeros
StripZeros(bits) ==
    IF ~HasOne(bits) THEN <<>>
    ELSE SubSeq(bits, CHOOSE i \in 1..Len(bits) :
                         bits[i] = 1 /\ \A j \in 1..(i - 1) : bits[j] = 0,
                Len(bits))

\* the binary digits of a natural number below 2^31, <<>> for 0
BitsOf(n) == StripZeros(Pad(n, 31))

\* the number written by at most 31 bits
RECURSIVE ValueOf(_, _)
ValueOf(bits, acc) ==
    IF bits = <<>> THEN acc ELSE ValueOf(Tail(bits), 2 * acc + Head(bits))

\* bits + 1
IncBits(b) ==
    IF \A i \in 1..Len(b) : b[i] = 1
    THEN <<1>> \o [i \in 1..Len(b) |-> 0]
    ELSE LET k == CHOOSE i \in 1..Len(b) :
                     b[i] = 0 /\ \A j \in (i + 1)..Len(b) : b[j] = 1
         IN [i \in 1..Len(b) |-> IF i < k THEN b[i] ELSE IF i = k THEN 1 ELSE 0]

\* Round to nearest, ties to even: `up` says the discarded part is more than
\* half a unit of the last kept bit, `tie` that it is exactly half.
Rounded(m, f, up, tie) ==
    LET inc == up \/ (tie /\ m[Len(m)] = 1)
        m1  == IF inc THEN IncBits(m) ELSE m
    IN IF Len(m1) > MantissaBits
       THEN [m |-> SubSeq(m1, 1, MantissaBits), f |-> f - 1]
       ELSE [m |-> m1, f |-> f]

\* Keep the first 53 bits of a bit string that has more, f of its bits lying
\* after the binary point, and round by the rest (`more`: something non-zero
\* lies beyond the string).
RoundBits(p, f, more) ==
    LET rest   == SubSeq(p, MantissaBits + 1, Len(p))
        sticky == HasOne(Tail(rest)) \/ more
    IN Rounded(SubSeq(p, 1, MantissaBits), f - Len(rest),
               rest[1] = 1 /\ sticky, rest[1] = 1 /\ ~sticky)

\* n / den for naturals n and den < 2^13: Python's true division, correctly
\* rounded.  Long division, four pieces of the fraction after the integer part
\* (72 bits: enough for 53 significant ones when n / den >= 2^-18).
FloatDiv(n, den) ==
    LET B  == Pow2(LimbBits)
        r0 == n % den
        c1 == (r0 * B) \div den
        r1 == (r0 * B) % den
        c2 == (r1 * B) \div den
        r2 == (r1 * B) % den
        c3 == (r2 * B) \div den
        r3 == (r2 * B) % den
        c4 == (r3 * B) \div den
        r4 == (r3 * B) % den
        q  == StripZeros(Pad(n \div den, 31) \o Pad(c1, LimbBits) \o Pad(c2, LimbBits)
                         \o Pad(c3, LimbBits) \o Pad(c4, LimbBits))
    IN IF n = 0 THEN FloatZero ELSE RoundBits(q, 4 * LimbBits, r4 # 0)

\* x * d for a double x and a natural d < 2^12: the exact product, piece by
\* piece from the last one with carries, rounded to 53 bits
FloatMulInt(x, d) ==
    LET B   == Pow2(LimbBits)
        cut == MantissaBits - 2 * LimbBits
        lo  == ValueOf(SubSeq(x.m, cut + LimbBits + 1, MantissaBits), 0) * d
        mid == ValueOf(SubSeq(x.m, cut + 1, cut + LimbBits), 0) * d + lo \div B
        hi  == ValueOf(SubSeq(x.m, 1, cut), 0) * d + mid \div B
        p   == BitsOf(hi) \o Pad(mid % B, LimbBits) \o Pad(lo % B, LimbBits)
    IN IF x.m = <<>> \/ d = 0 THEN FloatZero
       ELSE IF Len(p) <= MantissaBits THEN [m |-> p, f |-> x.f]
       ELSE RoundBits(p, x.f, FALSE)

\* int(x): the bits before the binary point
IntOfDouble(x) ==
    IF Len(x.m) <= x.f THEN 0 ELSE ValueOf(SubSeq(x.m, 1, Len(x.m) - x.f), 0)

\* int((n / 1000) * dim)
ToPixel(n, dim) == IntOfDouble(FloatMulInt(FloatDiv(n, NormScale), dim))

_norm_to_pixels(nx, ny, width, height) == <<"px", ToPixel(nx, width), ToPixel(ny, height)>>

\* config.SCREEN_WIDTH x config.SCREEN_HEIGHT (environment-sourced, no default)
Screens == {<<1920, 1080>>, <<1600, 900>>, <<1280, 720>>}

\* One call _norm_to_pixels(nx, ny).
NormToPixelsCall ==
    /\ cpc = "scale"
    /\ pxout' = _norm_to_pixels(pxin[1], pxin[2], pxin[3], pxin[4])
    /\ cpc' = "scaled"
    /\ UNCHANGED <<pxin, outsidePx>>

InitPx ==
    /\ MainIdle
    /\ cpc = "scale"
    /\ CloseIdle
    /\ SaveIdle
    /\ ParseIdle
    /\ \E n \in 0..MaxNorm, scr \in Screens : pxin = <<n, MaxNorm - n, scr[1], scr[2]>>
    /\ pxout = <<"unset", 0, 0>>

NextPx == NormToPixelsCall

SpecPx == InitPx /\ [][NextPx]_vars

\* ===================================================================== claims
ItemDone == pc \in {"finally", "sleep"}

\* C1 (SpecG): with a backend that fails on every call, ground_with_retry
\* invokes the backend exactly `retries` times and then raises the exhaustion
\* error; it never returns a point and never makes more than `retries` attempts.
C1_RetryExhaustion ==
    /\ gCalls <= retries
    /\ attempt <= retries + 1
    /\ (backendFails = gCalls) => pc # "click"
    /\ (pc = "except" /\ backendFails = gCalls) =>
          /\ gCalls = retries
          /\ exc = "RuntimeError"
          /\ point = NoPoint

C1_Witness ==
    /\ pc = "except"
    /\ retries >= 2
    /\ backendFails = retries
    /\ gCalls = retries

C3_FlagMonotonic == [][_grounding_disabled => _grounding_disabled']_vars

C3_Witness ==
    /\ _grounding_disabled
    /\ flagAtStart
    /\ pc = "sleep"

\* C4: once the flag is set, no backend invocation and no grounding step
\* happens, in the same item or in a later one, and every later launch goes
\* through the direct process path.
C4_NoGroundingAfterFlag ==
    /\ callsAfterFlag = 0
    /\ _grounding_disabled => pc \notin {"ground", "click"}
    /\ (flagAtStart /\ launchVia # "none") =>
          /\ launchVia = "subprocess"
          /\ clicks = 0
          /\ gCalls = 0

C4_Witness ==
    /\ flagAtStart
    /\ launchVia = "subprocess"
    /\ pc = "type"

\* C5: with the flag unset, a launch makes at most 3 ground+double-click
\* attempts and stops at the first one after which the window appears; the
\* flag is set, and the direct launch of the launch step used, exactly when the
\* window has not appeared after all 3 attempts.
C5_ThreeAttempts ==
    ~flagAtStart =>
        /\ clicks <= 3
        /\ launch_attempt <= 3
        /\ appearedAt > 0 => (clicks = appearedAt /\ pc \notin {"ground", "click"})
        /\ _grounding_disabled <=> launchVia = "fallback"
        /\ launchVia = "fallback" <=> (clicks = 3 /\ appearedAt = 0)

C5_Witness ==
    /\ ~flagAtStart
    /\ launchVia = "fallback"
    /\ clicks = 3
    /\ _grounding_disabled
    /\ pc = "verify"

\* C6: save_post returns true if and only if, after the save-as action, the
\* destination file exists with size greater than zero.
C6_SaveVerified ==
    saved # "unset" => (saved = "true" <=> file = "nonempty")

C6_Witness ==
    /\ pc = "close"
    /\ saved = "false"
    /\ file = "empty"
    /\ exc = "none"

\* C7 as stated: an item's recorded status is ok exactly when save verification
\* returned true for that item.
C7_StatusIsSaved ==
    ItemDone => (results[idx].status = "ok" <=> saved = "true")

\* C7 as amended: an item's recorded status is ok exactly when save
\* verification returned true and the close step after it raised nothing.
C7_StatusIsSavedAndClosed ==
    ItemDone =>
        /\ results[idx].status = "ok" <=> (saved = "true" /\ exc = "none")
        /\ results[idx].status \in {"ok", "error"}
        /\ success <=> results[idx].status = "ok"

C7_Witness ==
    /\ pc = "finally"
    /\ saved = "true"
    /\ exc = "Exception"
    /\ results[idx].status = "error"

\* C8: whatever fails inside an item, the run goes on and reaches the summary
\* with exactly one result per post, in post order.
C8_OneResultPerItem ==
    /\ Len(results) = (IF ItemDone THEN idx ELSE idx - 1)
    /\ \A i \in DOMAIN results : results[i].id = i
    /\ pc = "summary" => Len(results) = POSTS_COUNT
    /\ pc # "summary" => ENABLED Next

C8_Witness ==
    /\ pc = "summary"
    /\ POSTS_COUNT >= 2
    /\ results[1].reason = "Exception"
    /\ results[2].reason = "TimeoutError"

\* C9: an item that ended in failure has had the finally-block close before
\* the next item's launch begins (or the summary is reached).
C9_CleanupAfterFailure ==
    /\ (pc = "sleep" /\ results[idx].status = "error") => cleaned
    /\ (pc \in {"launch", "summary"} /\ idx > 1 /\ results[idx - 1].status = "error")
          => cleaned

C9_Witness ==
    /\ pc = "launch"
    /\ idx > 1
    /\ results[idx - 1].reason = "save not verified on disk"
    /\ cleaned

\* C10 (SpecG): no screenshot is handed to the backend on two attempts, the
\* caller's screenshot is used on attempt 1 only, and every later attempt uses
\* a fresh capture.
C10_FreshScreenshots ==
    /\ \A i, j \in DOMAIN shots : i # j => shots[i] # shots[j]
    /\ \A i \in DOMAIN shots :
          /\ shots[i] = CallerShot => (i = 1 /\ supplied = CallerShot)
          /\ i > 1 => shots[i][1] = "capture"
    /\ (supplied = CallerShot /\ shots # <<>>) => shots[1] = CallerShot

C10_Witness ==
    /\ supplied = CallerShot
    /\ Len(shots) >= 2
    /\ shots[1] = CallerShot
    /\ shots[2] = FreshShot(1)

\* C11 (SpecClose): close_all_notepad_windows terminates.  It makes at most 20
\* close attempts even when none of them is effective, it stops at the first
\* check that finds no Notepad window, and it only returns for one of these two
\* reasons; until it has returned it can always take its next step.
C11_CloseAllBounded ==
    /\ caAttempts <= CloseAllLimit
    /\ caIter <= CloseAllLimit
    /\ (caFoundNone => cpc # "close_all" /\ wins = 0)
    /\ (cpc # "close_all" => caFoundNone \/ caAttempts = CloseAllLimit)
    /\ (cpc = "close_all" => ENABLED NextClose)

\* 20 attempts were made, a window is still there, and the call has returned.
C11_Witness ==
    /\ cpc = "closed_all"
    /\ caAttempts = CloseAllLimit
    /\ wins > 0
    /\ ~caFoundNone

\* C12: if the window does not appear within the timeout after notepad.exe was
\* started directly, the launch fails with TimeoutError; the error reaches the
\* item's except clause with no further launch attempt for that item, and the
\* item is recorded as failed with that error.
C12_LaunchTimeoutFailsItem ==
    directTimedOut =>
        /\ directLaunched
        /\ exc = "TimeoutError"
        /\ pc \in {"except", "finally", "sleep"}
        /\ (ItemDone =>
               /\ Len(results) = idx
               /\ results[idx] = [id |-> idx, status |-> "error",
                                  reason |-> "TimeoutError"])

\* An item whose direct launch timed out has been recorded and cleaned up.
C12_Witness ==
    /\ directTimedOut
    /\ pc = "sleep"
    /\ results[idx].status = "error"

\* C13 as stated: the blank-document loop makes 6 attempts before the forced
\* close-all-and-relaunch.
C13_SixAttempts == forced => verifyIters = 6

\* C13 (amended): the blank-document loop makes at most 5 attempts (dismiss
\* dialogs, inspect the title, close the stale document), and the forced
\* close-all-and-relaunch happens after exactly 5 of them.
C13_FiveAttempts ==
    /\ verifyIters <= VerifyAttempts
    /\ (forced => verifyIters = VerifyAttempts)

\* The forced clean launch ran after five non-blank titles.
C13_Witness ==
    /\ forced
    /\ verifyIters = VerifyAttempts
    /\ vAttempt = VerifyAttempts + 1

\* C14 as stated: once the verification budget is exhausted the launch always
\* hands back a window handle.
C14_AlwaysReturnsHandle == forced => ~directTimedOut

\* C14 (amended): when the verification budget is exhausted the controller
\* closes all windows and starts notepad.exe directly; no further title check
\* follows.  If the window appears the launch returns its handle whatever the
\* title is, and the item goes on to typing; if it does not appear the launch
\* fails with TimeoutError.  It never fails for any other reason.
C14_ForcedLaunchUnchecked ==
    forced =>
        /\ directLaunched
        /\ verifyIters = VerifyAttempts
        /\ pc # "verify"
        /\ exc # "RuntimeError"
        /\ (directTimedOut <=> exc = "TimeoutError")
        /\ (~directTimedOut => hwnd = 1)

\* The forced launch returned a window that is not blank, and the item is
\* about to be typed into it.
C14_Witness ==
    /\ forced
    /\ pc = "type"
    /\ hwnd = 1
    /\ ~titleBlank

\* C15 (SpecSave): the overwrite loop of save_file_as selects Yes at most 3
\* times, once in every iteration that found the dialog; it leaves the loop at
\* the first check that finds no overwrite dialog, and a step that finds no
\* dialog never selects Yes.
C15_ConfirmLoopBounded ==
    /\ [](/\ yesClicks <= SaveConfirmLimit
          /\ yesClicks = svAttempt
          /\ (owFoundNone => cpc # "overwrite")
          /\ (cpc # "overwrite" => owFoundNone \/ yesClicks = SaveConfirmLimit))
    /\ [][(cpc = "overwrite" /\ ~owDialog) => yesClicks' = yesClicks]_vars

\* Yes was selected three times and the call went on with the dialog still up.
C15_Witness ==
    /\ cpc = "dismiss"
    /\ yesClicks = SaveConfirmLimit
    /\ ~owFoundNone
    /\ owDialog

\* C16 (SpecSave): during save_file_as Enter is never pressed on the overwrite
\* confirmation, not even when it is still there after the three Yes attempts.
C16_NeverEnterOnOverwrite == ~enterOnOverwrite

\* C17: a failure to load the local model on first use is fatal for the
\* process: the grounding layer makes no further backend call after it, and no
\* result is recorded for the item (the run does not go on past it).
C17_LoadFailureFatal ==
    loadFailed =>
        /\ gCalls <= 1
        /\ Len(results) < idx

\* C18 (SpecCoop): in a cooperative environment every item is recorded ok, in
\* order and one at a time (item idx starts only when idx - 1 results exist and
\* gets its result before the next one starts); at the summary there is one ok
\* result per post and post_1.txt .. post_N.txt hold content; until then the
\* run can always take its next step.
C18_AllOkSequential ==
    /\ \A i \in 1..Len(results) : results[i].id = i /\ results[i].status = "ok"
    /\ Len(results) = (IF pc \in {"finally", "sleep"} THEN idx ELSE idx - 1)
    /\ (pc = "summary" =>
           /\ Len(results) = POSTS_COUNT
           /\ \A i \in 1..POSTS_COUNT : <<"post_", i, ".txt">> \in disk)
    /\ (pc # "summary" => ENABLED NextCoop)

\* The run is over with every post saved.
C18_Witness ==
    /\ pc = "summary"
    /\ Len(results) = POSTS_COUNT
    /\ POSTS_COUNT >= 2
    /\ disk = {<<"post_", i, ".txt">> : i \in 1..POSTS_COUNT}

\* C19 (SpecP): parsing is format-insensitive.  For a pair (a, b) of integers
\* in 0..999 each of "(a, b)", "( a , b )", "a, b", "a b" and the fenced form
\* "```(a, b)```" parses to exactly (a, b).
C19_FormatInsensitive ==
    (cpc = "parsed" /\ pin[1] = "single") => presult = <<"ok", pin[3], pin[4]>>

\* The spaced-out parenthesised form of a three-digit pair has been parsed.
C19_Witness ==
    /\ cpc = "parsed"
    /\ pin = <<"single", "( a , b )", 523, 741>>
    /\ presult = <<"ok", 523, 741>>

\* C20 as stated (SpecP): of two pairs surrounded by prose the parser returns
\* the first one in reading order, whichever shapes the two pairs have.
C20_FirstPairWins ==
    (cpc = "parsed" /\ pin[1] = "double") =>
        presult = <<"ok", pin[4][1], pin[4][2]>>

\* the order in which the shapes are tried: (x, y), then x, y, then x y
ShapeRank(shape) ==
    CASE shape = "paren" -> 1
      [] shape = "comma" -> 2
      [] shape = "space" -> 3

\* C20 (amended, SpecP): the shape tried first wins, and only within one shape
\* the left-most match.  Of two pairs surrounded by prose the parser returns
\* the second one exactly when its shape is tried before the shape of the
\* first, and the first one otherwise.
C20_ShapeThenLeftmost ==
    (cpc = "parsed" /\ pin[1] = "double") =>
        presult = IF ShapeRank(pin[3]) < ShapeRank(pin[2])
                  THEN <<"ok", pin[5][1], pin[5][2]>>
                  ELSE <<"ok", pin[4][1], pin[4][2]>>

\* "Answer: 1 2 or (3, 4) end" has been parsed to (3, 4).
C20_Witness ==
    /\ cpc = "parsed"
    /\ pin = <<"double", "space", "paren", <<1, 2>>, <<3, 4>>>>
    /\ presult = <<"ok", 3, 4>>

\* C21 (SpecP): parsing a text that holds no pair of numbers, the empty string
\* included, fails with ValueError: it returns no point, (0, 0) or other, and
\* ends in no other way.
C21_NoPairRaisesValueError ==
    (cpc = "parsed" /\ pin[1] = "nopair") => presult = <<"ValueError", 0, 0>>

\* The empty string has been parsed, with a ValueError.
C21_Witness ==
    /\ cpc = "parsed"
    /\ pin = <<"nopair", "empty">>
    /\ presult[1] = "ValueError"

\* C22 (SpecPx): pixel scaling is floor-based for every normalised value and
\* every screen size: the pixel coordinate is floor(n * d / 1000), also for
\* n >= 1000.
C22_FloorScaling ==
    cpc = "scaled" =>
        pxout = <<"px", (pxin[1] * pxin[3]) \div NormScale,
                        (pxin[2] * pxin[4]) \div NormScale>>

\* C23 as stated: (among the rest) closing starts only after the destination
\* file has been confirmed to exist.
C23_CloseOnlyAfterFileConfirmed ==
    (Len(stepsBegun) = 4) => saved = "true"

\* C23 (amended): within one item the steps begin in the order launch, type,
\* save, close; typing starts only with a window handle observed by the
\* launch; closing starts only after save_post has returned its verdict,
\* confirmed or not, and a confirmed verdict means the file holds content; an
\* item starts only when every earlier item has its result, and gets exactly
\* one.
C23_StepOrder ==
    /\ stepsBegun = SubSeq(<<"launch", "type", "save", "close">>, 1, Len(stepsBegun))
    /\ (Len(stepsBegun) >= 2 => hwnd = 1)
    /\ (Len(stepsBegun) < 3 => saved = "unset")
    /\ (Len(stepsBegun) = 4 => saved \in {"true", "false"})
    /\ (saved = "true" => file = "nonempty")
    /\ Len(results) = (IF pc \in {"finally", "sleep"} THEN idx ELSE idx - 1)

\* close_notepad has begun for an item whose save was not confirmed.
C23_Witness ==
    /\ stepsBegun = <<"launch", "type", "save", "close">>
    /\ saved = "false"
    /\ idx = 2

\* C24 (SpecClose): a launch closes the windows that are already there before
\* anything else: its first grounding call or process start comes only when
\* close_all_notepad_windows has returned.  If every close attempt removed its
\* window and there were at most 20 windows, none is left at that point.
C24_CloseAllFirst ==
    /\ (cpc \in {"ground", "subprocess"} => caFoundNone \/ caAttempts = CloseAllLimit)
    /\ ((cpc # "close_all" /\ ~caIneffective /\ wins + caAttempts <= CloseAllLimit)
           => wins = 0)

\* Twenty windows were closed one by one and the launch went on to grounding.
C24_Witness ==
    /\ cpc = "ground"
    /\ caAttempts = CloseAllLimit
    /\ ~caIneffective
    /\ wins = 0

InTrace(e) == \E i \in 1..Len(vTrace) : vTrace[i] = e
TitlePos == {i \in 1..Len(vTrace) : vTrace[i] \in Titles}

\* C25: in every pass of the blank-document loop the dialogs are dismissed
\* before the title is read; the loop returns the window only in a pass whose
\* title was the blank one, and Ctrl+W is sent only in a pass whose title was
\* not the blank one.
C25_VerifyOrder ==
    /\ [](/\ \A i \in TitlePos : \E j \in 1..(i - 1) : vTrace[j] = "dismiss"
          /\ InTrace("return") => /\ InTrace(BlankTitle)
                                  /\ ~InTrace("ctrl_w")
          /\ InTrace("ctrl_w") => /\ InTrace(StaleTitle)
                                  /\ ~InTrace(BlankTitle)
                                  /\ \E i \in TitlePos : \E j \in (i + 1)..Len(vTrace) :
                                        vTrace[j] = "ctrl_w")
    /\ [][(pc = "verify" /\ pc' = "type" /\ ~forced')
             => (vTrace'[Len(vTrace')] = "return" /\ titleBlank')]_vars

\* A pass that sent Ctrl+W on a stale title is followed by a pass that returns
\* on a blank one.
C25_Witness ==
    /\ pc = "type"
    /\ ~forced
    /\ verifyIters >= 2
    /\ InTrace("return")
    /\ InTrace(BlankTitle)

\* A step that is one pass of the blank-document loop, begun with no Notepad
\* window on screen.
VerifyPassWindowGone ==
    /\ pc = "verify"
    /\ VerifyLoopContinues(vAttempt)
    /\ verifyIters' = verifyIters + 1
    /\ ~winOpen

\* C26 as stated: whenever the window is not found in a pass, the pass
\* goes on to the title of the relaunched window.
C26_RelaunchAlwaysContinues ==
    [][VerifyPassWindowGone => \E i \in 1..Len(vTrace') : vTrace'[i] \in Titles]_vars

\* C26: when the window is not found in a pass of the blank-document loop,
\* notepad.exe is started directly, with no grounding call and no screenshot;
\* if the window then appears the same pass goes on to read its title, and the
\* loop variable advances by the Ctrl+W of that pass alone; if it does not
\* appear the launch ends with TimeoutError.
C26_RelaunchSamePass ==
    [][VerifyPassWindowGone =>
          /\ directLaunched'
          /\ \E i \in 1..Len(vTrace') : vTrace'[i] = "relaunch"
          /\ Cardinality({i \in 1..Len(vTrace') : vTrace'[i] = "find"}) = 1
          /\ gCalls' = gCalls
          /\ captures' = captures
          /\ clicks' = clicks
          /\ \/ /\ pc' = "except"
                /\ exc' = "TimeoutError"
                /\ directTimedOut'
                /\ vAttempt' = vAttempt
             \/ /\ \E i \in 1..Len(vTrace') :
                      /\ vTrace'[i] = "relaunch"
                      /\ \E j \in (i + 1)..Len(vTrace') : vTrace'[j] \in Titles
                /\ pc' \in {"type", "verify"}
                /\ vAttempt' = IF pc' = "type" THEN vAttempt ELSE vAttempt + 1
                /\ exc' = exc]_vars

\* The window was gone in the second pass or later, was relaunched, and the
\* launch returned from that pass.
C26_Witness ==
    /\ pc = "type"
    /\ ~forced
    /\ verifyIters >= 2
    /\ InTrace("relaunch")
    /\ InTrace("return")

\* C27: the weights are not loaded before the first backend call; a call
\* that finds no model loads it (or raises trying); once loaded the model
\* stays, and no later call loads again: there is at most one load per process.
C27_LoadOnce ==
    /\ [](/\ loads <= 1
          /\ (_model = "loaded") <=> (loads = 1)
          /\ (idx = 1 /\ stepsBegun = <<>>) => _model = "None")
    /\ [][/\ (_model = "loaded") => (_model' = "loaded" /\ loads' = loads)
          /\ (gCalls' = gCalls + 1 /\ _model = "None")
                => \/ _model' = "loaded" /\ loads' = 1
                   \/ last_exc' = "LoadError" /\ _model' = "None"
          /\ (_model' # _model) => gCalls' = gCalls + 1]_vars

\* The second post is being grounded with the model loaded while the first
\* post was processed.
C27_Witness ==
    /\ idx = 2
    /\ pc = "click"
    /\ _model = "loaded"
    /\ loads = 1
    /\ Len(results) = 1

\* A step that is one attempt of ground_with_retry, and whether the backend
\* call in it returned a point (decode and parse succeeded).
AttemptStep == gCalls' = gCalls + 1
DecodeFailed == backendFails' = backendFails + 1
DecodeSucceeded == backendFails' = backendFails

C30_SuccessfulDecodeReturns ==
    [][(AttemptStep /\ DecodeSucceeded)
          => /\ pc' = "click"
             /\ point' # NoPoint
             /\ gCalls' = attempt
             /\ last_exc' = last_exc]_vars

\* C29 as stated: when a save-error dialog is detected after the path was
\* confirmed, save_file_as does not return normally (it raises RuntimeError).
C29_RaisesOnSaveError == errorDialogSeen => cpc # "returned"

\* C31: a launch makes at most 3 double-clicks and at most 3 times the
\* configured retry count backend invocations, all of them inside its
\* ground-click loop; a double-click is only made right after a
\* ground_with_retry call of the same launch attempt returned a point, and it
\* is given that point.
C31_BoundedGrounding ==
    /\ [](/\ clicks <= LaunchAttempts
          /\ launchCalls <= LaunchAttempts * GROUNDING_MAX_RETRIES
          /\ pc = "click" => (point \in Points /\ gCalls > backendFails)
          /\ clicks > 0 => clickOnReturned)
    /\ [][/\ (clicks' = clicks + 1) =>
                /\ pc = "click"
                /\ point \in Points
                /\ clickOnReturned'
          /\ (pc' = "click" /\ pc # "click") =>
                /\ pc = "ground"
                /\ point = NoPoint
                /\ point' \in Points
                /\ gCalls' = gCalls + 1
                /\ launch_attempt' = launch_attempt
          /\ (gCalls' = gCalls + 1) =>
                /\ pc = "ground"
                /\ launchCalls' = launchCalls + 1
          /\ (launchCalls' # launchCalls) =>
                \/ launchCalls' = launchCalls + 1
                \/ /\ launchCalls' = 0
                   /\ pc \in {"launch", "click", "except", "sleep"}
                   /\ pc' # "ground"]_vars

\* The third double-click of a launch is about to be made, with the point of
\* the last backend invocation the launch is allowed.
C31_Witness ==
    /\ pc = "click"
    /\ clicks = LaunchAttempts - 1
    /\ clickOnReturned
    /\ launchCalls = LaunchAttempts * GROUNDING_MAX_RETRIES
    /\ launch_attempt = LaunchAttempts

\* C33 as stated: dismiss_notepad_dialogs(max_dismissals = m) dismisses, and
\* returns as its count, at most m dialogs.
C33_DismissAtMostMax == dismissed <= dMax

\* launch_notepad is running.
InLaunch == pc \in {"launch", "ground", "click", "verify"}

\* The most wait_for_window calls a launch can make: one per pass of the
\* ground-click loop, one for the fallback, two per pass of the blank-document
\* loop and one for the forced clean launch.
WaitLimit == LaunchAttempts + 1 + 2 * VerifyAttempts + 1

\* C32: every launch_notepad call ends, whatever the windows and the backend
\* do: it returns a window handle, or raises TimeoutError or RuntimeError,
\* having made a bounded number of grounding attempts, backend invocations,
\* window waits and passes of the blank-document loop.
C32_LaunchTerminates ==
    /\ [](/\ launch_attempt <= LaunchAttempts
          /\ attempt <= retries + 1
          /\ launchCalls <= LaunchAttempts * GROUNDING_MAX_RETRIES
          /\ vAttempt <= VerifyAttempts + 1
          /\ verifyIters <= VerifyAttempts
          /\ waits <= WaitLimit)
    /\ [][(InLaunch /\ ~InLaunch') =>
             \/ /\ pc' = "type"
                /\ hwnd' # 0
                /\ exc' = "none"
             \/ /\ pc' = "except"
                /\ exc' \in {"TimeoutError", "RuntimeError"}]_vars
    /\ (InLaunch ~> ~InLaunch)

\* The longest launch: three clicks without a window, the fallback, five
\* passes that found a stale tab, all but the first (which finds the window
\* just opened) after a relaunch, and the forced clean launch.
C32_Witness ==
    /\ pc = "type"
    /\ forced
    /\ clicks = LaunchAttempts
    /\ verifyIters = VerifyAttempts
    /\ waits = WaitLimit - 1

====
